---- MODULE Spec2Model ----
(***************************************************************************)
(* Model of AnimatablePortraitReconLoss (training/loss/loss_recon_v1.py),  *)
(* the per-iteration training step of Portrait4D.                          *)
(*                                                                         *)
(* The engine is a single synchronous method, accumulate_gradients; one    *)
(* call is one action.  The method body is modelled block by block, each   *)
(* block an operator on the call's frame (its local variables and its      *)
(* observable effects: external calls, evaluated loss components, backward *)
(* passes, the exception that ended it).  A block is skipped once an       *)
(* exception has been raised, as the Python interpreter unwinds the call.  *)
(*                                                                         *)
(* Tensors are abstracted to what the control flow decides about them: a   *)
(* loss is the set of components summed into it, loss_recon is the vector  *)
(* of coefficients (in tenths) of its seven terms, an optional argument is *)
(* whether it is None.                                                     *)
(***************************************************************************)
EXTENDS Integers, Sequences, FiniteSets, TLC

VARIABLES
    self,           \* the engine's configuration, fixed by __init__
    cur_nimg,       \* the caller's images-seen counter
    args,           \* the arguments of the call in progress
    requires_grad,  \* the networks whose parameters the caller left trainable
    frame,          \* locals and effects of the call in progress
    pc,             \* "idle" between calls, "returned" / "raised" at a call's end
    latched         \* history: the gates seen open in the calls that have ended

vars == <<self, cur_nimg, args, requires_grad, frame, pc, latched>>

----------------------------------------------------------------------------
(* Bounds of the model. *)

MaxKimg == 1        \* discrimination_kimg ranges over 0..MaxKimg
MaxFadeKimg == 2    \* neural_rendering_resolution_fade_kimg ranges over 0..MaxFadeKimg
MaxGain == 2        \* gain ranges over 1..MaxGain
FadeSamples == 4    \* cur_nimg samples taken inside a fade window
MaxBatch == 5       \* the batch size ranges over 1..MaxBatch
NumCoords == 1      \* coordinates sampled per density query (1000 at line 368)
MaxEnsemble == 2    \* a density query returns a tuple of 1..MaxEnsemble outputs

----------------------------------------------------------------------------
(* Values. *)

\* Python's None for an optional value; a present value v is <<v>>.
None == << >>
Some(v) == <<v>>
IsNone(x) == x = None

NoError == "none"

Networks == {"G", "D"}

\* The phase enumeration of the engine and one tag outside it.
Phases == {"none", "Gmain", "Greg", "Gboth", "Dmain", "Dreg", "Dboth",
           "D_patchreg", "D_patchboth"}
UnknownPhase == "Gfoo"

Min(a, b) == IF a <= b THEN a ELSE b
Max(a, b) == IF a >= b THEN a ELSE b

\* numpy.rint of the non-negative rational n/d: round half to even.
Rint(n, d) ==
    LET q == n \div d
        r == n % d
    IN  IF 2 * r < d THEN q
        ELSE IF 2 * r > d THEN q + 1
        ELSE IF q % 2 = 0 THEN q ELSE q + 1

----------------------------------------------------------------------------
(* The frame of a call: the arguments as locals, the other locals, and the *)
(* call's observable effects.                                              *)

\* Entry of accumulate_gradients: the arguments become locals; nothing has
\* been computed, called or back-propagated yet.  rg is the set of networks
\* whose parameters require grad while the call runs (set by the caller).
Enter(a, rg) ==
    a @@ [ requires_grad |-> rg,
           alpha |-> None,
           neural_rendering_resolution |-> None,
           neural_rendering_resolution_patch |-> None,
           blur_sigma |-> None,
           r1_gamma |-> None,
           conditioning |-> None,
           density_conditioning |-> None,
           TVloss |-> None,
           bound |-> {},
           real_img |-> {},
           loss_recon |-> None,
           loss_Gmain |-> None,
           r1 |-> None,
           evaluated |-> {},
           calls |-> {},
           backwards |-> << >>,
           raised |-> NoError ]

Raise(f, exc) == [f EXCEPT !.raised = exc]

\* The networks a loss is connected to in the autograd graph this method
\* builds.  Nothing in the method detaches the generator output before it
\* is scored (lines 351, 418-425); the real images are detached (435-438).
\* (Faulty variant: the real images are not detached and every loss is connected
\* to both networks.)
GraphNoSeparation(component) == Networks
GraphOf(component) ==
    CASE component = "recon" -> {"G"}
      [] component = "adv_G" -> {"G", "D"}
      [] component = "TV"    -> {"G"}
      [] component = "Dgen"  -> {"G", "D"}
      [] component = "Dreal" -> {"D"}
      [] component = "R1"    -> {"D"}
      [] OTHER               -> {}

\* loss.mul(gain).backward() (lines 363, 411, 427, 493): one backward pass of
\* the sum of `terms`, scaled by the caller's gain; gradient accumulates on
\* the parameters that are in the loss's graph and require grad.
\* (Faulty variant: loss.backward() without mul(gain).)
BackwardUnscaled(f, name, terms) ==
    [f EXCEPT !.backwards = Append(@,
        [ name |-> name, terms |-> terms, mul |-> 1,
          params |-> UNION {GraphOf(t) : t \in terms} \cap f.requires_grad ])]
Backward(f, name, terms) ==
    [f EXCEPT !.backwards = Append(@,
        [ name |-> name, terms |-> terms, mul |-> f.gain,
          params |-> UNION {GraphOf(t) : t \in terms} \cap f.requires_grad ])]

----------------------------------------------------------------------------
(* Lines 216-221: collapse of the regularization phases under zero weights. *)

CollapseG(p) ==
    IF self.density_reg = 0
    THEN CASE p = "Greg" -> "none" [] p = "Gboth" -> "Gmain" [] OTHER -> p
    ELSE p

\* (Faulty variant: the check of r1_gamma is missing.)
CollapseDNever(p) == p
CollapseD(p) ==
    IF self.r1_gamma = 0
    THEN CASE p = "Dreg" -> "none" [] p = "Dboth" -> "Dmain" [] OTHER -> p
    ELSE p

CollapseDPatch(p) ==
    IF self.r1_gamma_patch = 0
    THEN CASE p = "D_patchreg" -> "none" [] p = "D_patchboth" -> "Dmain" [] OTHER -> p
    ELSE p

CollapsePhase(f) ==
    [f EXCEPT !.phase = CollapseDPatch(CollapseD(CollapseG(f.phase)))]

----------------------------------------------------------------------------
(* Lines 223-235: the schedule.  alpha is kept as the exact fraction       *)
(* <<numerator, denominator>>.                                             *)

\* Lines 223-224: the blur sigma and the R1 gamma of the step.  blur_sigma
\* is the literal 0 and r1_gamma is the configured weight; the fields
\* blur_init_sigma, blur_fade_kimg, r1_gamma_init and r1_gamma_fade_kimg
\* stored by __init__ (lines 59-64) are not read.
StepWeights(f) ==
    IF f.raised # NoError THEN f
    ELSE [f EXCEPT !.blur_sigma = Some(0),
                   !.r1_gamma = Some(self.r1_gamma)]

\* min(max((cur_nimg - discrimination_kimg*1e3) / (fade_kimg*1e3), 0), 1)
\* (Faulty variant: the upper clamp min(..., 1) is missing.)
AlphaUnclamped(n) ==
    LET den == self.neural_rendering_resolution_fade_kimg * 1000
    IN  <<Max(n - self.discrimination_kimg * 1000, 0), den>>
Alpha(n) ==
    LET den == self.neural_rendering_resolution_fade_kimg * 1000
    IN  <<Min(Max(n - self.discrimination_kimg * 1000, 0), den), den>>

\* int(np.rint(initial * (1 - alpha) + final * alpha))
Resolution(alpha) ==
    Rint(self.neural_rendering_resolution_initial * (alpha[2] - alpha[1])
           + self.neural_rendering_resolution_final[1] * alpha[1],
         alpha[2])

Schedule(f) ==
    IF f.raised # NoError THEN f
    ELSE IF ~IsNone(self.neural_rendering_resolution_final)
    THEN IF self.neural_rendering_resolution_fade_kimg * 1000 = 0
         THEN Raise(f, "ZeroDivisionError")                         \* line 230
         ELSE [f EXCEPT
                 !.alpha = Some(Alpha(f.cur_nimg)),
                 !.neural_rendering_resolution = Some(Resolution(Alpha(f.cur_nimg))),
                 !.neural_rendering_resolution_patch = self.neural_rendering_resolution_final]
    ELSE [f EXCEPT
            !.neural_rendering_resolution = Some(self.neural_rendering_resolution_initial),
            !.neural_rendering_resolution_patch = Some(self.neural_rendering_resolution_initial)]

----------------------------------------------------------------------------
(* Lines 238-264: the real-image bundle and the masked targets, built      *)
(* before the phase is looked at.                                          *)

PrepareReal(f) ==
    IF f.raised # NoError THEN f
    ELSE IF self.has_superresolution
    THEN [f EXCEPT
            !.calls = @ \cup {"filtered_resizing"},                 \* 239-248
            !.bound = @ \cup {"real_img_raw", "real_seg_raw"},
            !.real_seg_recon_render = TRUE,                         \* 242-245
            !.real_img = {"image_sr", "uv", "image", "seg"}]        \* 257
    ELSE IF ~f.real_seg_recon_render
    THEN Raise(f, "TypeError")                                      \* 259: mean(None)
    ELSE Raise([f EXCEPT !.real_img = {"image", "uv", "seg"}],      \* 259
               "UnboundLocalError")                                 \* 261: real_img_raw

----------------------------------------------------------------------------
(* run_G (lines 164-198) and run_D (lines 200-212).                        *)

\* Lines 175-177: torch.where(prob < swapping_prob, ...), the Bernoulli
\* draw of one batch element.  torch.rand draws from [0, 1); draws and
\* probabilities are in tenths.
\* (Faulty variant: <= for <, an element can be swapped under probability 0.)
SwappedInclusive(prob, p) == prob <= p
Swapped(prob, p) == prob < p

\* Line 191: torch.where(prob.reshape(num_static,1,1) < 1 - swapping_prob,
\* zeros_like(motion_scale[num_static:]), motion_scale[num_static:]).  prob
\* has num_static rows and the slice B - num_static: equal sizes combine
\* row by row, a size of 1 is broadcast to the other size (which may be 0),
\* any other pair of sizes is a RuntimeError of torch.where.
StaticRows(B, num_static) ==
    IF num_static = B - num_static THEN Some(num_static)
    ELSE IF num_static = 1 THEN Some(B - num_static)
    ELSE IF B - num_static = 1 THEN Some(num_static)
    ELSE None
MotionScaleStatic(B, num_static, p, motion_scale, prob) ==
    [ i \in 1..StaticRows(B, num_static)[1] |->
        IF (IF num_static = 1 THEN prob[1] ELSE prob[i]) < 10 - p
        THEN 0 ELSE motion_scale ]

\* Lines 171-192 of run_G: the conditioning of a batch of B elements.
\* rand holds the values the two torch.rand calls return.  The result is
\* the appearance image, the appearance motion embedding and the motion
\* scale handed to the generator, element by element.
Conditioning(B, motion_scale, swapping_prob, half_static, rand) ==
    LET num_static == B \div 2                                         \* 186
        ones == [ i \in 1..B |-> motion_scale ]                        \* 171
        swap == [ i \in 1..B |->
                    ~IsNone(swapping_prob)
                        /\ Swapped(rand.swap[i], swapping_prob[1]) ]
        swapped == [ imgs_app |-> [ i \in 1..B |->                     \* 175, 179
                                     IF swap[i] THEN "imgs_mot" ELSE "imgs_app" ],
                     motions_app |-> [ i \in 1..B |->                  \* 177, 181
                                     IF swap[i] THEN "motions" ELSE "motions_app" ],
                     motion_scale |-> [ i \in 1..B |->                 \* 176, 180
                                     IF swap[i] THEN 0 ELSE ones[i] ],
                     raised |-> NoError ]
    IN  IF ~half_static THEN swapped
        ELSE IF IsNone(swapping_prob)
        THEN [swapped EXCEPT !.motion_scale =                          \* 188
                 [ i \in 1..B |-> IF i <= num_static THEN ones[i] ELSE ones[i] * 0 ]]
        ELSE IF IsNone(StaticRows(B, num_static))
        THEN [swapped EXCEPT !.raised = "RuntimeError"]                \* 191
        ELSE [swapped EXCEPT !.motion_scale =                          \* 192
                 SubSeq(@, 1, num_static)
                     \o MotionScaleStatic(B, num_static, swapping_prob[1],
                                          motion_scale, rand.static)]

\* run_G: renderer and deformer (166-169), the conditioning (171-192) and
\* the synthesis call of the generator (194).
run_G(f) ==
    LET c == Conditioning(f.batch, f.motion_scale, f.swapping_prob,
                          f.half_static, f.rand.G)
    IN  IF c.raised # NoError THEN Raise(f, c.raised)
        ELSE [f EXCEPT !.calls = @ \cup {"G"},
                       !.conditioning = Some(c)]

\* run_D: the images are blurred when floor(blur_sigma * 3) > 0 (lines
\* 201-209), then the discriminator is invoked (line 211).
run_D(f) ==
    [f EXCEPT !.calls = @ \cup {"D"}
                          \cup (IF f.blur_sigma[1] * 3 > 0 THEN {"filter2d"} ELSE {})]

\* Lines 349 and 414: the discrimination warm-up gate.
\* (Faulty variant: the comparison with the warm-up threshold is missing.)
WarmupIgnored(n) == self.use_D
\* (Faulty variant: the gate closes again at 400k images.)
WarmupWindow(n) ==
    n >= self.discrimination_kimg * 1000 /\ n < 400 * 1000 /\ self.use_D
PastWarmup(n) ==
    n >= self.discrimination_kimg * 1000 /\ self.use_D

----------------------------------------------------------------------------
(* Lines 268-363: Gmain, the reconstruction loss and the adversarial       *)
(* generator loss.                                                         *)

\* Line 310: the identity loss is used after 400k images.
\* (Faulty variant: <= for <, the term still off at exactly 400k images.)
UseIdLossOffByOne(n) == ~(n <= 400 * 1000)
UseIdLoss(n) == ~(n < 400 * 1000)

\* Lines 317, 324, 334: a gated term is used when its ground truth is
\* supplied, before 400k images.
\* (Faulty variant: <= for <, the depth term still on at exactly 400k images.)
UseDepthLossOffByOne(f) == f.real_depth_recon /\ f.cur_nimg <= 400 * 1000
UseDepthLoss(f)    == f.real_depth_recon    /\ f.cur_nimg < 400 * 1000
UseFeatureLoss(f)  == f.real_feature_recon  /\ f.cur_nimg < 400 * 1000
UseTriplaneLoss(f) == f.real_triplane_recon /\ f.cur_nimg < 400 * 1000

\* Line 346: loss_recon as the coefficient, in tenths, of each term:
\* lpips + l1 + 0.3 seg + depth + feature + 0.1 triplane + id, a term that
\* is not used being the literal 0 (lines 311, 321, 331, 344).
LossRecon(f) ==
    [ lpips    |-> 10,
      l1       |-> 10,
      seg      |-> 3,
      depth    |-> IF UseDepthLoss(f) THEN 10 ELSE 0,
      feature  |-> IF UseFeatureLoss(f) THEN 10 ELSE 0,
      triplane |-> IF UseTriplaneLoss(f) THEN 1 ELSE 0,
      id       |-> IF UseIdLoss(f.cur_nimg) THEN 10 ELSE 0 ]

\* Lines 270-346: the forward pass up to loss_recon.
GmainRecon(f) ==
    LET g  == run_G(f)                                                 \* 270
        f1 == [g EXCEPT !.calls = @ \cup {"lpips", "facenet"}]         \* 272-307
    IN  IF g.raised # NoError THEN g
        ELSE IF UseDepthLoss(f1) /\ "real_seg_raw" \notin f1.bound
        THEN Raise(f1, "UnboundLocalError")                            \* 318
        ELSE IF UseFeatureLoss(f1) /\ ~f1.real_feature_recon_bg
        THEN Raise(f1, "TypeError")                                    \* 328: None - Tensor
        ELSE [f1 EXCEPT !.loss_recon = Some(LossRecon(f1)),            \* 346
                        !.evaluated = @ \cup {"recon"}]

\* Lines 348-357: the adversarial loss after the warm-up stage.
GmainAdversarial(f) ==
    IF f.raised # NoError THEN f
    ELSE IF PastWarmup(f.cur_nimg)
    THEN [run_D(f) EXCEPT !.loss_Gmain = Some("softplus(-gen_logits)"),
                          !.evaluated = @ \cup {"adv_G"}]
    ELSE f                                                             \* 357: None

\* Lines 359-363: one backward pass of loss_recon (+ loss_Gmain).
GmainBackward(f) ==
    IF f.raised # NoError THEN f
    ELSE Backward(f, "Gmain",
                  {"recon"} \cup (IF IsNone(f.loss_Gmain) THEN {} ELSE {"adv_G"}))

Gmain(f) ==
    IF f.raised # NoError THEN f
    ELSE IF f.phase \in {"Gmain", "Gboth"}
    THEN GmainBackward(GmainAdversarial(GmainRecon(f)))
    ELSE f

----------------------------------------------------------------------------
(* Lines 366-411: density regularization.                                  *)

DensityRegSelected(f) ==
    /\ f.phase \in {"Greg", "Gboth"}
    /\ self.density_reg > 0
    /\ self.reg_type = "l1"

Abs(x) == IF x >= 0 THEN x ELSE -x

RECURSIVE SumOver(_, _)
SumOver(g, n) == IF n = 0 THEN 0 ELSE g[n] + SumOver(g, n - 1)

\* Line 369: the perturbed copy of the base coordinates,
\* initial + randn * density_reg_p_dist * box_warp.
\* (Faulty variant: the noise is not scaled by density_reg_p_dist.)
PerturbedUnscaled(initial_coordinates, noise) ==
    [ i \in DOMAIN initial_coordinates |->
        initial_coordinates[i] + noise[i] * self.box_warp ]
Perturbed(initial_coordinates, noise) ==
    [ i \in DOMAIN initial_coordinates |->
        initial_coordinates[i] + noise[i] * self.density_reg_p_dist * self.box_warp ]

\* Line 394: the generator's density at the queried coordinates, for one
\* output of the query: sigma at a coordinate is the value of the density
\* field there.
sample_mixed(field, all_coordinates) ==
    [ i \in DOMAIN all_coordinates |-> field[all_coordinates[i]] ]

\* Lines 398-401 and 404-408: N * l1_loss(sigma_initial, sigma_perturbed)
\* * density_reg of one output, N the number of base coordinates.
L1Density(out_, N) ==
    LET sigma == SubSeq(out_, 1, N * 2)
        sigma_initial == SubSeq(sigma, 1, Len(sigma) \div 2)
        sigma_perturbed == SubSeq(sigma, Len(sigma) \div 2 + 1, Len(sigma))
    IN  SumOver([ i \in 1..N |-> Abs(sigma_initial[i] - sigma_perturbed[i]) ], N)
            * self.density_reg

\* Lines 395-409: TVloss as the exact fraction <<numerator, denominator>>:
\* the l1 penalty of the single output, or the sum over the outputs of a
\* tuple of the penalty divided by len(out).
TVLoss(out, is_tuple, N) ==
    IF is_tuple
    THEN <<SumOver([ k \in DOMAIN out |-> L1Density(out[k], N) ], Len(out)),
           N * Len(out)>>
    ELSE <<L1Density(out[1], N), N>>

\* Lines 373-392: the conditioning of the density query, the code of
\* run_G's lines 171-192 repeated with draws of its own.
DensityConditioning(f) ==
    Conditioning(f.batch, f.motion_scale, f.swapping_prob, f.half_static, f.rand.TV)

DensityReg(f) ==
    IF f.raised # NoError THEN f
    ELSE IF DensityRegSelected(f)
    THEN LET c == DensityConditioning(f)
             initial_coordinates == f.coordinates                      \* 368
             all_coordinates ==                                        \* 371
                 initial_coordinates \o Perturbed(initial_coordinates, f.noise)
             out == [ k \in DOMAIN f.density.fields |->                \* 394
                        sample_mixed(f.density.fields[k], all_coordinates) ]
         IN  IF c.raised # NoError THEN Raise(f, c.raised)             \* 391
             ELSE Backward([f EXCEPT
                               !.density_conditioning = Some(c),
                               !.calls = @ \cup {"G"},                 \* 394
                               !.TVloss = Some(TVLoss(out, f.density.is_tuple,
                                                      Len(initial_coordinates))),
                               !.evaluated = @ \cup {"TV"}],           \* 395-409
                           "Greg", {"TV"})                             \* 411
    ELSE f

----------------------------------------------------------------------------
(* Lines 413-493: the discriminator phases.                                *)

\* Lines 416-427: the discriminator loss on generated images.
Dgen(f) ==
    IF f.raised # NoError THEN f
    ELSE IF PastWarmup(f.cur_nimg) /\ f.phase \in {"Dmain", "Dboth"}
    THEN LET g == run_G(f)                                             \* 418
         IN  IF g.raised # NoError THEN g
             ELSE Backward([run_D(g) EXCEPT !.evaluated = @ \cup {"Dgen"}],
                           "Dgen", {"Dgen"})
    ELSE f

\* Lines 454-478: the R1 gradients in dual discrimination.
R1Dual(f) ==
    IF self.has_superresolution
    THEN [f EXCEPT
            !.r1 = Some([ inputs |-> {"image_sr", "image"}
                                       \cup (IF self.has_uv THEN {"uv"} ELSE {})
                                       \cup (IF self.has_seg THEN {"seg"} ELSE {}),
                          uv  |-> IF self.has_uv THEN "grad" ELSE "zeros",
                          seg |-> IF self.has_seg THEN "grad" ELSE "zeros" ]),
            !.bound = @ \cup {"r1_grads_image", "r1_grads_image_raw",
                              "r1_penalty", "r1_penalty_uv", "r1_penalty_seg"},
            !.evaluated = @ \cup {"R1", "R1_uv", "R1_seg"}]
    ELSE Raise(f, "UnboundLocalError")                                 \* 476: r1_grads_image

\* Lines 479-487: the R1 gradients in single discrimination.
R1Single(f) ==
    [f EXCEPT
        !.r1 = Some([ inputs |-> IF self.has_superresolution
                                 THEN {"image_sr"} ELSE {"image"},
                      uv  |-> "zeros",
                      seg |-> "unbound" ]),
        !.bound = @ \cup {"r1_grads_image", "r1_penalty", "r1_penalty_uv"},
        !.evaluated = @ \cup {"R1", "R1_uv"}]

\* Lines 452-490: loss_Dr1.
R1Penalty(f) ==
    LET f1 == IF self.dual_discrimination THEN R1Dual(f) ELSE R1Single(f)
    IN  IF f1.raised # NoError THEN f1
        ELSE IF "r1_penalty_seg" \notin f1.bound
        THEN Raise(f1, "UnboundLocalError")                            \* 488
        ELSE f1

\* Line 448: the real-sample loss is evaluated in Dmain and Dboth.
\* (Faulty variant: the real-sample loss is evaluated in Dreg as well.)
DrealLossPhasesWithDreg == {"Dmain", "Dreg", "Dboth"}
DrealLossPhases == {"Dmain", "Dboth"}
\* Line 453: the R1 penalty is evaluated in Dreg and Dboth.
R1Phases == {"Dreg", "Dboth"}

\* Lines 431-493: the discriminator loss on real images and R1.
Dreal(f) ==
    IF f.raised # NoError THEN f
    ELSE IF PastWarmup(f.cur_nimg) /\ f.phase \in {"Dmain", "Dreg", "Dboth"}
    THEN IF "image_sr" \notin f.real_img
         THEN Raise(f, "KeyError")                                     \* 435
         ELSE LET f1 == run_D(f)                                       \* 443
                  f2 == IF f1.phase \in DrealLossPhases
                        THEN [f1 EXCEPT !.evaluated = @ \cup {"Dreal"}]
                        ELSE f1
                  f3 == IF f2.phase \in R1Phases THEN R1Penalty(f2) ELSE f2
              IN  IF f3.raised # NoError THEN f3
                  ELSE Backward(f3, "Dreal",                           \* 493
                                (f3.evaluated \cap {"Dreal", "R1"}))
    ELSE f

----------------------------------------------------------------------------
(* accumulate_gradients, lines 214-493.                                    *)

accumulate_gradients(a, rg) ==
    Dreal(Dgen(DensityReg(Gmain(PrepareReal(Schedule(StepWeights(
        CollapsePhase(Enter(a, rg)))))))))

----------------------------------------------------------------------------
(* Configurations (__init__, lines 37-83, and the capability flags and     *)
(* rendering options read from G and D) and arguments.                     *)

\* The defaults of __init__ (line 37) with a generator that has a
\* super-resolution stage and a discriminator that scores uv and seg.
DefaultConfig ==
    [ density_reg |-> 1, reg_type |-> "l1",
      r1_gamma |-> 10, r1_gamma_patch |-> 10, r1_gamma_uv |-> 30, r1_gamma_seg |-> 10,
      discrimination_kimg |-> 1, use_D |-> TRUE, dual_discrimination |-> TRUE,
      has_superresolution |-> TRUE, has_uv |-> TRUE, has_seg |-> TRUE,
      neural_rendering_resolution_initial |-> 64,
      neural_rendering_resolution_final |-> None,
      neural_rendering_resolution_fade_kimg |-> 0,
      density_reg_p_dist |-> 1, box_warp |-> 1,
      blur_init_sigma |-> 0, blur_fade_kimg |-> 0,
      r1_gamma_init |-> 0, r1_gamma_fade_kimg |-> 0 ]

\* c with the fields of the record d replaced.
With(c, d) == d @@ c

\* Configurations of the phase dispatch.
DispatchConfigs ==
    { With(DefaultConfig, d) : d \in
        [ density_reg : {0, 1}, reg_type : {"l1", "l1-alt"},
          r1_gamma : {0, 10}, r1_gamma_patch : {0, 10},
          discrimination_kimg : 0..MaxKimg, use_D : BOOLEAN,
          dual_discrimination : BOOLEAN, has_superresolution : BOOLEAN ] }

\* The images-seen counts sampled: around the warm-up threshold, the end of
\* the fade window and the 400k threshold, and inside the fade window.
CurNimgs ==
    LET warm == self.discrimination_kimg * 1000
        fade == self.neural_rendering_resolution_fade_kimg * 1000
        near == { t + d : t \in {warm, warm + fade, 400 * 1000}, d \in {-1, 0, 1} }
        in   == IF IsNone(self.neural_rendering_resolution_final) THEN {}
                ELSE { warm + (j * fade) \div FadeSamples : j \in 0..FadeSamples }
    IN  { n \in {0} \cup near \cup in : n >= 0 }

\* The optional ground-truth channels: TRUE when the tensor is supplied.
Channels ==
    [ real_seg_recon_render : BOOLEAN, real_depth_recon : BOOLEAN,
      real_feature_recon : BOOLEAN, real_feature_recon_bg : BOOLEAN,
      real_triplane_recon : BOOLEAN ]
NoChannels ==
    [ real_seg_recon_render |-> FALSE, real_depth_recon |-> FALSE,
      real_feature_recon |-> FALSE, real_feature_recon_bg |-> FALSE,
      real_triplane_recon |-> FALSE ]
AllChannels ==
    [ real_seg_recon_render |-> TRUE, real_depth_recon |-> TRUE,
      real_feature_recon |-> TRUE, real_feature_recon_bg |-> TRUE,
      real_triplane_recon |-> TRUE ]

\* The values torch.rand returns, in tenths.
RandValues == {0, 5}

\* The conditioning arguments of a call: a batch of two, the defaults of
\* line 214 (motion_scale 1.0, swapping_prob 0.5, half_static False), and
\* the draws of the two conditioning sites (run_G, density regularizer).
DefaultConditioning ==
    [ batch |-> 2, motion_scale |-> 1, swapping_prob |-> Some(5),
      half_static |-> FALSE,
      rand |-> [ G  |-> [ swap |-> <<0, 5>>, static |-> <<5>> ],
                 TV |-> [ swap |-> <<5, 0>>, static |-> <<0>> ] ] ]

\* The density fields a generator may hold, over the coordinates a query
\* can reach: flat, a ramp and a spike.
CoordValues == {-1, 0}
NoiseValues == {0, 1}
FlatField == [ x \in -1..1 |-> 0 ]
DensityFields ==
    { FlatField, [ x \in -1..1 |-> x + 1 ], [ x \in -1..1 |-> IF x = 0 THEN 3 ELSE 0 ] }

\* The random draws and the generator's answer of a density query: one
\* base coordinate and one noise value per sample, and a single output.
DefaultDensityQuery ==
    [ coordinates |-> [ i \in 1..NumCoords |-> 0 ],
      noise |-> [ i \in 1..NumCoords |-> 1 ],
      density |-> [ is_tuple |-> FALSE, fields |-> <<FlatField>> ] ]

ArgsOf(phases, channels) ==
    { ch @@ [ phase |-> p, cur_nimg |-> cur_nimg, gain |-> g ]
         @@ DefaultConditioning @@ DefaultDensityQuery :
        p \in phases, g \in 1..MaxGain, ch \in channels }

DispatchArgs == ArgsOf(Phases \cup {UnknownPhase}, {NoChannels, AllChannels})

\* The module whose parameters a phase updates, and the states of the
\* parameters' requires_grad flags the caller may leave for a call: the
\* phase's own module is trainable, the other one may or may not be.
PhaseModule(p) ==
    IF p \in {"Gmain", "Greg", "Gboth"} THEN {"G"}
    ELSE IF p \in {"Dmain", "Dreg", "Dboth", "D_patchreg", "D_patchboth"} THEN {"D"}
    ELSE {}
RequiresGradStates(p) == { S \in SUBSET Networks : PhaseModule(p) \subseteq S /\ S # {} }

----------------------------------------------------------------------------
(* The state machine: construction, then the outer loop, which calls the   *)
(* engine once per (phase, batch, gain, cur_nimg) and advances its         *)
(* images-seen counter between calls.                                      *)

\* No call in progress.
NoArgs ==
    NoChannels @@ [ phase |-> "none", cur_nimg |-> 0, gain |-> 1 ]
        @@ DefaultConditioning @@ DefaultDensityQuery
NoFrame == Enter(NoArgs, {})

Construct(configs) ==
    /\ self \in configs
    /\ cur_nimg = 0
    /\ args = NoArgs
    /\ requires_grad = Networks
    /\ frame = NoFrame
    /\ pc = "idle"
    /\ latched = {}

\* The outer loop has processed more images.
Progress ==
    /\ pc = "idle"
    /\ \E n \in CurNimgs : n > cur_nimg /\ cur_nimg' = n
    /\ UNCHANGED <<self, args, requires_grad, frame, pc, latched>>

\* One call of accumulate_gradients, run to its return or to the exception
\* that ends it.
Call(A) ==
    /\ pc = "idle"
    /\ \E a \in A : \E rg \in RequiresGradStates(a.phase) :
        /\ args' = a
        /\ requires_grad' = rg
        /\ frame' = accumulate_gradients(a, rg)
        /\ pc' = IF frame'.raised = NoError THEN "returned" ELSE "raised"
    /\ UNCHANGED <<self, cur_nimg, latched>>

\* Control is back in the outer loop; the call's frame is gone.
Return ==
    /\ pc \in {"returned", "raised"}
    /\ pc' = "idle"
    /\ args' = NoArgs
    /\ frame' = NoFrame
    /\ UNCHANGED <<self, cur_nimg, requires_grad, latched>>

\* The gates the call that has just ended showed open: the adversarial
\* term in Gmain (line 349), the identity term on (line 310), a supplied
\* depth, feature or triplane target switched off by the threshold (lines
\* 317, 324, 334), the discriminator reached by a D phase (line 414).
DPhases == {"Dmain", "Dreg", "Dboth", "D_patchreg", "D_patchboth"}
EarlyTermsOff(f) ==
    \/ f.real_depth_recon /\ f.loss_recon[1].depth = 0
    \/ f.real_feature_recon /\ f.loss_recon[1].feature = 0
    \/ f.real_triplane_recon /\ f.loss_recon[1].triplane = 0
Observed(f) ==
    (IF "adv_G" \in f.evaluated THEN {"adv_G"} ELSE {})
    \cup (IF ~IsNone(f.loss_recon) /\ f.loss_recon[1].id # 0 THEN {"id"} ELSE {})
    \cup (IF ~IsNone(f.loss_recon) /\ EarlyTermsOff(f) THEN {"early_off"} ELSE {})
    \cup (IF args.phase \in DPhases /\ "D" \in f.calls THEN {"D"} ELSE {})

\* Return, with the history of the gates kept.
ReturnLatched ==
    /\ pc \in {"returned", "raised"}
    /\ pc' = "idle"
    /\ args' = NoArgs
    /\ frame' = NoFrame
    /\ latched' = latched \cup Observed(frame)
    /\ UNCHANGED <<self, cur_nimg, requires_grad>>

Init == Construct(DispatchConfigs)
Step == Call(DispatchArgs)
Next == Progress \/ Step \/ Return
Spec == Init /\ [][Next]_vars

----------------------------------------------------------------------------
(* The same state machine over the configurations and arguments of the R1  *)
(* penalty, of the reconstruction loss and of the schedule.                *)

\* Configurations of the regularizers: the weights and the capability flags.
R1Configs ==
    { With(DefaultConfig, d) : d \in
        [ density_reg : {0, 1},
          r1_gamma : {0, 10}, r1_gamma_uv : {0, 30}, r1_gamma_seg : {0, 10},
          has_uv : BOOLEAN, has_seg : BOOLEAN,
          dual_discrimination : BOOLEAN, has_superresolution : BOOLEAN ] }
R1Args == ArgsOf(Phases, {NoChannels})

InitR1 == Construct(R1Configs)
StepR1 == Call(R1Args)
NextR1 == Progress \/ StepR1 \/ Return
SpecR1 == InitR1 /\ [][NextR1]_vars

\* Configurations of the reconstruction loss.
ReconConfigs ==
    { With(DefaultConfig, d) : d \in
        [ density_reg : {0, 1}, discrimination_kimg : 0..MaxKimg,
          use_D : BOOLEAN, has_superresolution : BOOLEAN ] }
ReconArgs == ArgsOf({"Gmain", "Gboth", "Greg", "Dmain"}, Channels)

InitRecon == Construct(ReconConfigs)
StepRecon == Call(ReconArgs)
NextRecon == Progress \/ StepRecon \/ Return
SpecRecon == InitRecon /\ [][NextRecon]_vars

\* Configurations of the schedule.
ScheduleConfigs ==
    { With(DefaultConfig, d) : d \in
        [ discrimination_kimg : 0..MaxKimg,
          neural_rendering_resolution_initial : {64, 17},
          neural_rendering_resolution_final : {None, Some(128), Some(33)},
          neural_rendering_resolution_fade_kimg : 0..MaxFadeKimg ] }
ScheduleArgs == ArgsOf({"none", "Gmain", "Dmain"}, {NoChannels})

InitSchedule == Construct(ScheduleConfigs)
StepSchedule == Call(ScheduleArgs)
NextSchedule == Progress \/ StepSchedule \/ Return
SpecSchedule == InitSchedule /\ [][NextSchedule]_vars

\* Configurations of the blur and R1-gamma fade windows.
FadeConfigs ==
    { With(DefaultConfig, d) : d \in
        [ discrimination_kimg : 0..MaxKimg,
          blur_init_sigma : {0, 10}, blur_fade_kimg : 0..MaxFadeKimg,
          r1_gamma_init : {0, 20}, r1_gamma_fade_kimg : 0..MaxFadeKimg ] }
FadeArgs == ArgsOf({"Gmain", "Dmain", "Dreg"}, {NoChannels})

InitFade == Construct(FadeConfigs)
StepFade == Call(FadeArgs)
NextFade == Progress \/ StepFade \/ Return
SpecFade == InitFade /\ [][NextFade]_vars

\* A step with gain 1 in a configuration whose warm-up is over from the
\* first image, so that every phase reaches its blocks.
NoWarmupConfig == With(DefaultConfig, [ discrimination_kimg |-> 0 ])
UnitGain(A) == { a \in A : a.gain = 1 }

\* The draws of one conditioning site for a batch of B: one value per
\* element for the swap and, under half_static, one per element of the
\* first half for the override; no draw is made with swapping_prob unset.
Draws(B, swapping_prob, half_static) ==
    LET undrawn == [ i \in 1..(B \div 2) |-> 5 ]
    IN  IF IsNone(swapping_prob)
        THEN { [ swap |-> [ i \in 1..B |-> 5 ], static |-> undrawn ] }
        ELSE { [ swap |-> sw, static |-> st ] :
                 sw \in [ 1..B -> RandValues ],
                 st \in IF half_static THEN [ 1..(B \div 2) -> RandValues ]
                        ELSE { undrawn } }

\* Conditioning arguments: every batch size, swapping_prob unset, 0, 0.5
\* and 1, half_static off and on, and every outcome of the draws.
Conditionings ==
    UNION { UNION { UNION {
        { [ batch |-> B, motion_scale |-> 1, swapping_prob |-> sp,
            half_static |-> hs, rand |-> [ G |-> r, TV |-> r ] ] :
            r \in Draws(B, sp, hs) } :
        hs \in BOOLEAN } :
        sp \in {None, Some(0), Some(5), Some(10)} } :
        B \in 1..MaxBatch }

CondConfigs == { NoWarmupConfig }
CondArgs ==
    { c @@ a : a \in UnitGain(ArgsOf({"Gmain", "Greg", "Dmain"}, {NoChannels})),
               c \in Conditionings }

InitCond == Construct(CondConfigs)
StepCond == Call(CondArgs)
NextCond == Progress \/ StepCond \/ Return
SpecCond == InitCond /\ [][NextCond]_vars

\* Density queries: every base coordinate and noise draw, and a generator
\* that answers with a single output or with a tuple of outputs.
Densities ==
    { [ is_tuple |-> FALSE, fields |-> <<fld>> ] : fld \in DensityFields }
    \cup UNION { { [ is_tuple |-> TRUE, fields |-> fs ] :
                     fs \in [ 1..k -> DensityFields ] } : k \in 1..MaxEnsemble }
DensityQueries ==
    { [ coordinates |-> c, noise |-> n, density |-> d ] :
        c \in [ 1..NumCoords -> CoordValues ],
        n \in [ 1..NumCoords -> NoiseValues ],
        d \in Densities }

DensityConfigs ==
    { With(NoWarmupConfig, d) : d \in
        [ density_reg : {0, 1, 2}, density_reg_p_dist : {0, 1} ] }
DensityArgs ==
    { q @@ a : a \in UnitGain(ArgsOf({"Greg", "Gboth"}, {NoChannels})),
               q \in DensityQueries }

InitDensity == Construct(DensityConfigs)
StepDensity == Call(DensityArgs)
NextDensity == Progress \/ StepDensity \/ Return
SpecDensity == InitDensity /\ [][NextDensity]_vars

\* Sequences of calls with a non-decreasing cur_nimg under one
\* configuration, the gates seen open recorded from call to call.
LatchConfigs ==
    { With(DefaultConfig, d) : d \in
        [ density_reg : {0, 1}, r1_gamma : {0, 10},
          discrimination_kimg : 0..MaxKimg, use_D : BOOLEAN ] }
LatchArgs ==
    UnitGain(ArgsOf({"Gmain", "Gboth", "Dmain", "Dreg", "D_patchreg"},
                    {NoChannels, AllChannels}))

InitLatch == Construct(LatchConfigs)
StepLatch == Call(LatchArgs)
NextLatch == Progress \/ StepLatch \/ ReturnLatched
SpecLatch == InitLatch /\ [][NextLatch]_vars

----------------------------------------------------------------------------
(* Properties of the phase dispatch, checked under Spec.                   *)

InCall == pc \in {"returned", "raised"}
Returned == pc = "returned"

BackwardPasses == { frame.backwards[i] : i \in DOMAIN frame.backwards }

\* The discriminator-side components of a loss.
AdversarialComponents == {"adv_G", "Dgen", "Dreal", "R1", "R1_uv", "R1_seg"}

\* The call is at or after the discrimination warm-up, with use_D set.
CallPastWarmup ==
    args.cur_nimg >= self.discrimination_kimg * 1000 /\ self.use_D

\* The backward passes the blocks selected by the phase given to the call
\* issue: one for Gmain, one for the density regularization with a positive
\* weight and reg_type 'l1', and after the warm-up one for the generated
\* and one for the real images.
PassesOfGmain(p) == IF p \in {"Gmain", "Gboth"} THEN 1 ELSE 0
PassesOfDensityReg(p) ==
    IF p \in {"Greg", "Gboth"} /\ self.density_reg > 0 /\ self.reg_type = "l1"
    THEN 1 ELSE 0
PassesOfD(p) ==
    IF ~CallPastWarmup THEN 0
    ELSE IF p = "Dmain" \/ p = "Dboth" THEN 2
    ELSE IF p = "Dreg" /\ self.r1_gamma # 0 THEN 1
    ELSE IF p = "D_patchboth" /\ self.r1_gamma_patch = 0 THEN 2
    ELSE 0
ExpectedPasses(p) == PassesOfGmain(p) + PassesOfDensityReg(p) + PassesOfD(p)

\* C1 as stated: a call whose phase after the collapse is a phase of the
\* enumeration other than `none` issues exactly one backward pass, and its
\* loss is multiplied by the caller's gain.
C1_ExactlyOneBackward ==
    (Returned /\ frame.phase \in Phases \ {"none"}) =>
        /\ Len(frame.backwards) = 1
        /\ frame.backwards[1].mul = args.gain

\* C1 as amended: every backward pass of a call is multiplied by the
\* caller's gain; a call that returns has issued one pass per block its
\* phase selects (Gmain 1; Greg 1; Gboth 2; Dmain and Dboth 2 and Dreg 1
\* after the warm-up, 0 before it or without use_D; the patch phases 0
\* unless D_patchboth collapses to Dmain), and a call that raises has
\* issued no more than that.
C1_BackwardPerBlock ==
    InCall =>
        /\ \A b \in BackwardPasses : b.mul = args.gain
        /\ Len(frame.backwards) <= ExpectedPasses(args.phase)
        /\ Returned => Len(frame.backwards) = ExpectedPasses(args.phase)

\* C1, witness: a Dmain call after the warm-up returned with two passes scaled by a
\* gain other than 1.
C1_Witness ==
    /\ Returned
    /\ args.phase = "Dmain"
    /\ args.gain = 2
    /\ Len(frame.backwards) = 2
    /\ frame.backwards[2].mul = 2

C3_NoDiscriminatorBeforeWarmup ==
    (InCall /\ args.cur_nimg < self.discrimination_kimg * 1000) =>
        /\ "D" \notin frame.calls
        /\ frame.evaluated \cap AdversarialComponents = {}
        /\ \A b \in BackwardPasses :
              b.terms \cap AdversarialComponents = {} /\ "D" \notin b.params

\* C3, witness: a Gmain call before the warm-up, with use_D set and the discriminator
\* trainable, back-propagated the reconstruction loss alone.
C3_Witness ==
    /\ Returned
    /\ args.cur_nimg < self.discrimination_kimg * 1000
    /\ self.use_D
    /\ args.phase = "Gmain"
    /\ requires_grad = Networks
    /\ Len(frame.backwards) = 1
    /\ frame.backwards[1].terms = {"recon"}

\* C4 as stated: a call whose phase is `none`, given or reached by the
\* collapse, issues no backward pass and calls no external collaborator.
C4_NoneIsNoOp ==
    (InCall /\ frame.phase = "none") =>
        frame.backwards = << >> /\ frame.calls = {}

\* The components the dispatch selects for the phase after the collapse:
\* the rows of the dispatch table, the discriminator rows only after the
\* warm-up, the density row only with a positive weight and reg_type 'l1'.
RowsAsStated(p) ==
    (IF p \in {"Gmain", "Gboth"} THEN {"recon"} ELSE {})
    \cup (IF p \in {"Gmain", "Gboth"} /\ CallPastWarmup THEN {"adv_G"} ELSE {})
    \cup (IF p \in {"Greg", "Gboth"} /\ self.density_reg > 0 /\ self.reg_type = "l1"
          THEN {"TV"} ELSE {})
    \cup (IF p \in {"Dmain", "Dboth"} /\ CallPastWarmup THEN {"Dgen"} ELSE {})
    \cup (IF p \in {"Dmain", "Dreg", "Dboth"} /\ CallPastWarmup THEN {"Dreal"} ELSE {})
    \cup (IF p \in {"Dreg", "Dboth"} /\ CallPastWarmup THEN {"R1"} ELSE {})
RowsAsCoded(p) ==
    (RowsAsStated(p) \ {"Dreal"})
    \cup (IF p \in {"Dmain", "Dboth"} /\ CallPastWarmup THEN {"Dreal"} ELSE {})

DispatchComponents == {"recon", "adv_G", "TV", "Dgen", "Dreal", "R1"}

\* C6 as stated: Gmain and Gboth evaluate the reconstruction loss (plus the
\* adversarial generator loss when enabled), Greg and Gboth the density
\* regularizer, Dmain and Dboth the generated-sample loss, Dmain, Dreg and
\* Dboth the real-sample loss, with R1 exactly in Dreg and Dboth; nothing
\* else is evaluated.
C6_DispatchTable ==
    Returned =>
        frame.evaluated \cap DispatchComponents = RowsAsStated(frame.phase)

\* C6 as amended: the same table, except that the real-sample loss
\* softplus(-real_logits) is evaluated in Dmain and Dboth only: Dreg scores
\* the real images and evaluates the R1 penalty alone.  The table is over
\* the phase after the collapse; a call that raises has evaluated nothing
\* outside its row.
C6_DispatchTableAsCoded ==
    InCall =>
        /\ frame.evaluated \cap DispatchComponents \subseteq RowsAsCoded(frame.phase)
        /\ Returned =>
              frame.evaluated \cap DispatchComponents = RowsAsCoded(frame.phase)

\* C6, witness: a Dreg call returned having evaluated R1 and not the real-sample loss.
C6_Witness ==
    /\ Returned
    /\ args.phase = "Dreg"
    /\ frame.evaluated \cap DispatchComponents = {"R1"}
    /\ Len(frame.backwards) = 1

\* C7 as stated: a phase tag outside the enumeration ends the call with an
\* error; the call never returns normally.
C7_UnknownPhaseFailsFast ==
    (InCall /\ args.phase \notin Phases) => pc = "raised"

----------------------------------------------------------------------------
(* Properties of the regularizers, checked under SpecR1.                   *)

\* C5 as stated: no regularizer is evaluated under a zero weight: the
\* density regularizer only with a nonzero density_reg, the R1 penalty and
\* its uv and seg components only with a nonzero r1_gamma, r1_gamma_uv and
\* r1_gamma_seg.
C5_NoZeroWeightRegularizer ==
    /\ "TV" \in frame.evaluated => self.density_reg # 0
    /\ "R1" \in frame.evaluated => self.r1_gamma # 0
    /\ "R1_uv" \in frame.evaluated => self.r1_gamma_uv # 0
    /\ "R1_seg" \in frame.evaluated => self.r1_gamma_seg # 0

\* C5 as amended: the density regularizer is evaluated only with a nonzero
\* density_reg and the R1 penalty, uv and seg components included, only
\* with a nonzero r1_gamma; the uv and seg components are evaluated
\* whenever the R1 penalty is, whatever r1_gamma_uv and r1_gamma_seg are.
C5_NoZeroWeightDispatch ==
    /\ "TV" \in frame.evaluated => self.density_reg # 0
    /\ frame.evaluated \cap {"R1", "R1_uv", "R1_seg"} # {} => self.r1_gamma # 0
    /\ "R1" \in frame.evaluated => "R1_uv" \in frame.evaluated
    /\ (Returned /\ "R1" \in frame.evaluated) => "R1_seg" \in frame.evaluated

\* C5, witness: a Dreg call returned having evaluated the uv and seg components under
\* zero weights.
C5_Witness ==
    /\ Returned
    /\ args.phase = "Dreg"
    /\ self.r1_gamma_uv = 0
    /\ self.r1_gamma_seg = 0
    /\ {"R1", "R1_uv", "R1_seg"} \subseteq frame.evaluated

\* C13 as stated: in an R1 phase past the warm-up, with a discriminator
\* that has neither has_uv nor has_seg, in dual and in single
\* discrimination the step completes with the uv and the seg penalty both
\* defined and both zeros (one entry per batch element, as zeros_like of a
\* per-sample tensor); in single discrimination the gradient is taken with
\* respect to the one image channel, super-res if present, else raw.
C13_ZeroPenaltiesWithoutCapabilities ==
    (InCall /\ frame.phase \in {"Dreg", "Dboth"} /\ CallPastWarmup
            /\ ~self.has_uv /\ ~self.has_seg) =>
        /\ Returned
        /\ ~IsNone(frame.r1)
        /\ frame.r1[1].uv = "zeros"
        /\ frame.r1[1].seg = "zeros"
        /\ {"r1_penalty", "r1_penalty_uv", "r1_penalty_seg"} \subseteq frame.bound
        /\ ~self.dual_discrimination =>
              frame.r1[1].inputs = IF self.has_superresolution
                                   THEN {"image_sr"} ELSE {"image"}

----------------------------------------------------------------------------
(* Properties of the reconstruction loss, checked under SpecRecon.         *)

\* C8 as stated: whichever of the optional channels (depth, feature map,
\* background feature, triplane samples) are absent, a Gmain step returns
\* and the term of an absent channel has coefficient 0 in loss_recon.
C8_OptionalChannelsAreOptional ==
    (InCall /\ args.phase = "Gmain" /\ self.has_superresolution) =>
        /\ Returned
        /\ ~IsNone(frame.loss_recon)
        /\ ~args.real_depth_recon => frame.loss_recon[1].depth = 0
        /\ ~args.real_feature_recon => frame.loss_recon[1].feature = 0
        /\ ~args.real_triplane_recon => frame.loss_recon[1].triplane = 0

\* C9: in a Gmain/Gboth step the identity term of loss_recon is 0 below
\* 400,000 images seen and is mean(1 - cosine_similarity), with weight 1,
\* at and above it.
C9_IdentityGate ==
    (InCall /\ args.phase \in {"Gmain", "Gboth"}) =>
        /\ Returned => ~IsNone(frame.loss_recon)
        /\ ~IsNone(frame.loss_recon) =>
              /\ args.cur_nimg < 400000 => frame.loss_recon[1].id = 0
              /\ args.cur_nimg >= 400000 => frame.loss_recon[1].id = 10

\* C9, witness: a Gmain step one image before the threshold ran the identity network
\* and back-propagated a loss_recon with a zero identity term.
C9_Witness ==
    /\ Returned
    /\ args.phase = "Gmain"
    /\ args.cur_nimg = 399999
    /\ "facenet" \in frame.calls
    /\ frame.loss_recon[1].id = 0
    /\ Len(frame.backwards) = 1

\* C16: in a Gmain/Gboth step the depth, feature-map and triplane terms
\* of loss_recon are on (coefficients 1, 1 and 0.1) exactly when their
\* ground truth is supplied and cur_nimg < 400,000, and are 0 at and above
\* 400,000; no step has a nonzero identity term together with a nonzero
\* depth, feature or triplane term.
C16_EarlyTermsGate ==
    (InCall /\ args.phase \in {"Gmain", "Gboth"} /\ ~IsNone(frame.loss_recon)) =>
        /\ frame.loss_recon[1].depth =
              IF args.real_depth_recon /\ args.cur_nimg < 400000 THEN 10 ELSE 0
        /\ frame.loss_recon[1].feature =
              IF args.real_feature_recon /\ args.cur_nimg < 400000 THEN 10 ELSE 0
        /\ frame.loss_recon[1].triplane =
              IF args.real_triplane_recon /\ args.cur_nimg < 400000 THEN 1 ELSE 0
        /\ frame.loss_recon[1].id # 0 =>
              /\ frame.loss_recon[1].depth = 0
              /\ frame.loss_recon[1].feature = 0
              /\ frame.loss_recon[1].triplane = 0

\* C16, witness: a Gmain step at exactly 400,000 images with every
\* optional channel supplied has the identity term on and the depth,
\* feature and triplane terms off.
C16_Witness ==
    /\ Returned
    /\ args.phase = "Gmain"
    /\ args.cur_nimg = 400000
    /\ args.real_depth_recon /\ args.real_feature_recon
    /\ args.real_feature_recon_bg /\ args.real_triplane_recon
    /\ frame.loss_recon[1].id = 10
    /\ frame.loss_recon[1].depth = 0
    /\ frame.loss_recon[1].feature = 0
    /\ frame.loss_recon[1].triplane = 0

----------------------------------------------------------------------------
(* Properties of the schedule, checked under SpecSchedule.                 *)

WarmupEnd == self.discrimination_kimg * 1000
FadeEnd == (self.discrimination_kimg + self.neural_rendering_resolution_fade_kimg) * 1000

\* C10: with a final resolution and a fade window > 0 the fade fraction is
\* 0 up to the warm-up threshold, 1 from the end of the fade window on, and
\* non-decreasing in cur_nimg; the resolution is the initial one at the
\* first endpoint and the final one at the second.  With no final
\* resolution it is the initial one throughout.
C10_ResolutionFade ==
    InCall =>
        /\ IsNone(self.neural_rendering_resolution_final) =>
              frame.neural_rendering_resolution
                  = Some(self.neural_rendering_resolution_initial)
        /\ (~IsNone(self.neural_rendering_resolution_final)
              /\ self.neural_rendering_resolution_fade_kimg > 0) =>
              /\ ~IsNone(frame.alpha)
              /\ 0 <= frame.alpha[1][1] /\ frame.alpha[1][1] <= frame.alpha[1][2]
              /\ args.cur_nimg <= WarmupEnd =>
                    /\ frame.alpha[1][1] = 0
                    /\ frame.neural_rendering_resolution
                          = Some(self.neural_rendering_resolution_initial)
              /\ args.cur_nimg >= FadeEnd =>
                    /\ frame.alpha[1][1] = frame.alpha[1][2]
                    /\ frame.neural_rendering_resolution
                          = self.neural_rendering_resolution_final
              /\ \A n \in CurNimgs :
                    n <= args.cur_nimg =>
                        Alpha(n)[1] * frame.alpha[1][2] <= frame.alpha[1][1] * Alpha(n)[2]

\* C10, witness: a call exactly at the end of a fade window rendered at the final
\* resolution.
C10_Witness ==
    /\ Returned
    /\ self.neural_rendering_resolution_final = Some(128)
    /\ self.neural_rendering_resolution_fade_kimg > 0
    /\ args.cur_nimg = FadeEnd
    /\ frame.alpha[1][1] = frame.alpha[1][2]
    /\ frame.neural_rendering_resolution = Some(128)

----------------------------------------------------------------------------
(* Properties of the blur and R1-gamma fades, checked under SpecFade.      *)

\* C11 as stated: with a blur fade window configured (blur_fade_kimg > 0,
\* blur_init_sigma > 0) the blur sigma of a step is interpolated from
\* blur_init_sigma, and with an R1-gamma fade window configured
\* (r1_gamma_fade_kimg > 0) the R1 gamma of a step is interpolated from
\* r1_gamma_init: at cur_nimg = 0, where the clamped fraction is 0, each
\* is its initial value.
C11_WeightsFade ==
    (InCall /\ args.cur_nimg = 0) =>
        /\ (self.blur_fade_kimg > 0 /\ self.blur_init_sigma > 0) =>
              frame.blur_sigma = Some(self.blur_init_sigma)
        /\ self.r1_gamma_fade_kimg > 0 =>
              frame.r1_gamma = Some(self.r1_gamma_init)

----------------------------------------------------------------------------
(* Properties of the conditioning, checked under SpecCond.                 *)

\* The conditioning run_G handed to the generator, and the one the density
\* regularizer handed to it.
GCond == frame.conditioning[1]
TVCond == frame.density_conditioning[1]
NumStatic == args.batch \div 2

Unswapped(c, i) ==
    c.imgs_app[i] = "imgs_app" /\ c.motions_app[i] = "motions_app"
FullySwapped(c, i) ==
    c.imgs_app[i] = "imgs_mot" /\ c.motions_app[i] = "motions"

C15_SwappedElementIsMotionless ==
    InCall =>
        /\ ~IsNone(frame.conditioning) =>
              \A i \in DOMAIN GCond.motion_scale :
                  GCond.imgs_app[i] = "imgs_mot" => GCond.motion_scale[i] = 0
        /\ ~IsNone(frame.density_conditioning) =>
              \A i \in DOMAIN TVCond.motion_scale :
                  TVCond.imgs_app[i] = "imgs_mot" => TVCond.motion_scale[i] = 0

\* The motion scale of element i after the swap, before the half-static
\* override.
ScaleAfterSwap(c, i) ==
    IF c.imgs_app[i] = "imgs_mot" THEN 0 ELSE args.motion_scale

\* C18 as stated: for every batch size, swapping_prob unset or set and
\* half_static off or on, the conditioning completes and the generator is
\* handed a motion scale with one entry per batch element whose first
\* floor(B/2) entries are as the swap left them; in run_G (Gmain, Dmain)
\* and in the density regularizer (Greg).
C18_MotionScalePerElement ==
    InCall =>
        /\ frame.raised # "RuntimeError"
        /\ args.phase \in {"Gmain", "Dmain"} =>
              /\ ~IsNone(frame.conditioning)
              /\ Len(GCond.motion_scale) = args.batch
              /\ \A i \in 1..NumStatic :
                    GCond.motion_scale[i] = ScaleAfterSwap(GCond, i)
        /\ args.phase = "Greg" =>
              /\ ~IsNone(frame.density_conditioning)
              /\ Len(TVCond.motion_scale) = args.batch
              /\ \A i \in 1..NumStatic :
                    TVCond.motion_scale[i] = ScaleAfterSwap(TVCond, i)

----------------------------------------------------------------------------
(* Properties of the density regularizer, checked under SpecDensity.       *)

\* C14: in a Greg/Gboth step that evaluates the density regularizer with
\* density_reg_p_dist = 0, TVloss is exactly 0, whatever the density
\* field, the base coordinates and the noise, for a single output and for
\* a tuple of outputs; and a step that selects the regularizer evaluates it.
C14_ZeroDistanceZeroPenalty ==
    (InCall /\ args.phase \in {"Greg", "Gboth"} /\ self.density_reg > 0) =>
        /\ Returned => ~IsNone(frame.TVloss)
        /\ (~IsNone(frame.TVloss) /\ self.density_reg_p_dist = 0) =>
              frame.TVloss[1][1] = 0 /\ frame.TVloss[1][2] > 0

\* C14, witness: a Greg step queried a tuple of two different non-flat
\* fields with nonzero noise and distance 0, and its TVloss is 0.
C14_Witness ==
    /\ Returned
    /\ args.phase = "Greg"
    /\ self.density_reg_p_dist = 0
    /\ self.density_reg = 2
    /\ args.density.is_tuple
    /\ Len(args.density.fields) = 2
    /\ args.density.fields[1] # args.density.fields[2]
    /\ FlatField \notin {args.density.fields[1], args.density.fields[2]}
    /\ args.noise[1] = 1
    /\ frame.TVloss[1][1] = 0
    /\ Len(frame.backwards) = 1

\* C19 as stated: with a generator that has no super-resolution stage,
\* accumulate_gradients completes for every phase of the enumeration, with
\* the real-image bundle built from the raw image channel.
C19_CompletesWithoutSuperresolution ==
    (InCall /\ ~self.has_superresolution /\ args.phase \in Phases) =>
        /\ Returned
        /\ "image" \in frame.real_img

\* C20 as stated: with a final resolution and a fade window of 0 the
\* resolution is computed without error: the initial resolution before
\* the warm-up threshold and the final one after it.
C20_ZeroFadeWindow ==
    (InCall /\ ~IsNone(self.neural_rendering_resolution_final)
            /\ self.neural_rendering_resolution_fade_kimg = 0) =>
        /\ frame.raised = NoError
        /\ ~IsNone(frame.neural_rendering_resolution)
        /\ args.cur_nimg < WarmupEnd =>
              frame.neural_rendering_resolution
                  = Some(self.neural_rendering_resolution_initial)
        /\ args.cur_nimg > WarmupEnd =>
              frame.neural_rendering_resolution
                  = self.neural_rendering_resolution_final

----------------------------------------------------------------------------
(* Properties of sequences of calls, checked under SpecLatch.  `latched`   *)
(* holds what the earlier calls of the sequence showed.                    *)

EarlyTermsAllOff ==
    /\ frame.loss_recon[1].depth = 0
    /\ frame.loss_recon[1].feature = 0
    /\ frame.loss_recon[1].triplane = 0

====
